---- MODULE Spec2Model ----
(***************************************************************************)
(* A model of calculator.py: the four built-in commands, the PluginLoader, *)
(* the module-level command dictionary and the repl() loop.                *)
(*                                                                         *)
(* Numbers: float values are kept as exact fractions n/d in lowest terms.  *)
(* The tokens of the model are dyadic (0, 0.5, 2, -4), so every sum,       *)
(* difference, product and quotient the model computes is exact in IEEE    *)
(* double arithmetic as well.  An int (the literal 0 or 1 that execute()   *)
(* returns for an empty call) is kept apart from a float by its tag.       *)
(***************************************************************************)
EXTENDS Integers, Sequences, FiniteSets, TLC

VARIABLES
    pc,         \* where the program is: loading plugins, in repl(), ended
    source,     \* the plugin package on disk, as importlib / pkgutil see it
    idx,        \* number of sub-modules the for loop of load_plugins has passed
    loader,     \* PluginLoader.commands
    commands,   \* the module-level dictionary `commands`
    inputs,     \* the events input() has delivered to repl() so far
    out,        \* what print() has written so far, one entry per call
    log,        \* what logger has recorded so far
    call        \* the execute() call of the latest step, NoCall if none

vars == <<pc, source, idx, loader, commands, inputs, out, log, call>>

----------------------------------------------------------------------------
(* Bounds of the model *)

MaxModules == 2     \* sub-modules in the plugin package
MaxLines == 2       \* lines repl() reads before the one that ends the session
MaxArgs == 3        \* arguments of a direct execute() call

----------------------------------------------------------------------------
(* Values returned by execute(): an int, a float or a str *)

IntVal(k) == [t |-> "int", n |-> k, d |-> 1, s |-> ""]

Str(text) == [t |-> "str", n |-> 0, d |-> 1, s |-> text]

Abs(x) == IF x < 0 THEN -x ELSE x

RECURSIVE GCD(_, _)
GCD(a, b) == IF b = 0 THEN a ELSE GCD(b, a % b)

\* the float n/d, in lowest terms with a positive denominator
FloatVal(n, d) ==
    LET g == GCD(Abs(n), Abs(d))
        sg == IF d < 0 THEN -1 ELSE 1
    IN  [t |-> "float", n |-> sg * (n \div g), d |-> sg * (d \div g), s |-> ""]

FAdd(a, b) == FloatVal(a.n * b.d + b.n * a.d, a.d * b.d)

FSub(a, b) == FloatVal(a.n * b.d - b.n * a.d, a.d * b.d)

FMul(a, b) == FloatVal(a.n * b.n, a.d * b.d)

FDiv(a, b) == FloatVal(a.n * b.d, a.d * b.n)

IsZero(a) == a.n = 0

ErrInvalidInput == Str("Error: Invalid input")

ErrDivisionByZero == Str("Error: Division by zero")

ErrTwoNumbers == Str("Error: Division requires at least two numbers")

----------------------------------------------------------------------------
(* float(token) *)

NumericTokens == {"0", "-0.0", "2", "0.5", "-4"}

BadTokens == {"abc", "?"}

Tokens == NumericTokens \cup BadTokens

\* float() succeeds on the token; it raises ValueError otherwise
CanParse(tok) == tok \in NumericTokens

\* float(tok) for a token that parses; -0.0 compares equal to 0 and is kept
\* as the same fraction
ParseFloat(tok) ==
    CASE tok = "0" -> FloatVal(0, 1)
      [] tok = "-0.0" -> FloatVal(0, 1)
      [] tok = "2" -> FloatVal(2, 1)
      [] tok = "0.5" -> FloatVal(1, 2)
      [] tok = "-4" -> FloatVal(-4, 1)

\* some float(num) of the call raises ValueError
RaisesValueError(args) == \E i \in 1..Len(args) : ~CanParse(args[i])

\* list(map(float, args))
Numbers(args) == [i \in 1..Len(args) |-> ParseFloat(args[i])]

LogEntry(level, msg) == [level |-> level, msg |-> msg]

Outcome(ret, logs) == [ret |-> ret, logs |-> logs]

RECURSIVE SumRange(_, _, _)
\* sum(numbers[lo-1:hi]): the int 0 plus each float in turn, left to right
SumRange(numbers, lo, hi) ==
    IF hi < lo THEN FloatVal(0, 1)
    ELSE FAdd(SumRange(numbers, lo, hi - 1), numbers[hi])

RECURSIVE ProductTo(_, _)
\* result = 1.0; result *= num for the first i numbers
ProductTo(numbers, i) ==
    IF i = 0 THEN FloatVal(1, 1)
    ELSE FMul(ProductTo(numbers, i - 1), numbers[i])

----------------------------------------------------------------------------
(* The built-in commands.  Each returns the value of execute(args) and    *)
(* the records it hands to the logger.                                     *)

AddExecute(args) ==
    IF args = <<>> THEN Outcome(IntVal(0), <<>>)
    ELSE IF RaisesValueError(args)
         THEN Outcome(ErrInvalidInput, <<LogEntry("error", "Invalid input for addition")>>)
    ELSE Outcome(SumRange(Numbers(args), 1, Len(args)),
                 <<LogEntry("info", "Executed AddCommand")>>)

SubtractExecute(args) ==
    IF args = <<>> THEN Outcome(ErrInvalidInput, <<>>)
    ELSE IF RaisesValueError(args)
         THEN Outcome(ErrInvalidInput, <<LogEntry("error", "Invalid input for subtraction")>>)
    ELSE LET numbers == Numbers(args)
         IN  Outcome(FSub(numbers[1], SumRange(numbers, 2, Len(numbers))),
                     <<LogEntry("info", "Executed SubtractCommand")>>)

\* variant: the empty call returns the 0 of addition
MultiplyExecuteEmptyZero(args) ==
    IF args = <<>> THEN Outcome(IntVal(0), <<>>)
    ELSE IF RaisesValueError(args)
         THEN Outcome(ErrInvalidInput, <<LogEntry("error", "Invalid input for multiplication")>>)
    ELSE Outcome(ProductTo(Numbers(args), Len(args)),
                 <<LogEntry("info", "Executed MultiplyCommand")>>)

MultiplyExecute(args) ==
    IF args = <<>> THEN Outcome(IntVal(1), <<>>)
    ELSE IF RaisesValueError(args)
         THEN Outcome(ErrInvalidInput, <<LogEntry("error", "Invalid input for multiplication")>>)
    ELSE Outcome(ProductTo(Numbers(args), Len(args)),
                 <<LogEntry("info", "Executed MultiplyCommand")>>)

RECURSIVE DivideLoopChecksResult(_, _, _)
\* variant: the zero test looks at the running result instead of the divisor
DivideLoopChecksResult(numbers, i, result) ==
    IF i > Len(numbers)
    THEN Outcome(result, <<LogEntry("info", "Executed DivideCommand")>>)
    ELSE IF IsZero(result)
         THEN Outcome(ErrDivisionByZero, <<LogEntry("error", "Division by zero attempted")>>)
    ELSE DivideLoopChecksResult(numbers, i + 1, FDiv(result, numbers[i]))

RECURSIVE DivideLoop(_, _, _)
\* for num in numbers[1:], entered at the i-th number with the running result
DivideLoop(numbers, i, result) ==
    IF i > Len(numbers)
    THEN Outcome(result, <<LogEntry("info", "Executed DivideCommand")>>)
    ELSE IF IsZero(numbers[i])
         THEN Outcome(ErrDivisionByZero, <<LogEntry("error", "Division by zero attempted")>>)
    ELSE DivideLoop(numbers, i + 1, FDiv(result, numbers[i]))

\* variant: the argument count is tested before the tokens are converted
DivideExecuteLengthFirst(args) ==
    IF args = <<>> THEN Outcome(ErrInvalidInput, <<>>)
    ELSE IF Len(args) = 1 THEN Outcome(ErrTwoNumbers, <<>>)
    ELSE IF RaisesValueError(args)
         THEN Outcome(ErrInvalidInput, <<LogEntry("error", "Invalid input for division")>>)
    ELSE DivideLoop(Numbers(args), 2, ParseFloat(args[1]))

\* variant: the test for a single number is missing
DivideExecuteNoSingleCheck(args) ==
    IF args = <<>> THEN Outcome(ErrInvalidInput, <<>>)
    ELSE IF RaisesValueError(args)
         THEN Outcome(ErrInvalidInput, <<LogEntry("error", "Invalid input for division")>>)
    ELSE DivideLoop(Numbers(args), 2, ParseFloat(args[1]))

DivideExecute(args) ==
    IF args = <<>> THEN Outcome(ErrInvalidInput, <<>>)
    ELSE IF RaisesValueError(args)
         THEN Outcome(ErrInvalidInput, <<LogEntry("error", "Invalid input for division")>>)
    ELSE LET numbers == Numbers(args)
         IN  IF Len(numbers) = 1 THEN Outcome(ErrTwoNumbers, <<>>)
             ELSE DivideLoop(numbers, 2, numbers[1])

BuiltinOps == {"AddCommand", "SubtractCommand", "MultiplyCommand", "DivideCommand"}

\* op.execute(args) for an instance of a built-in command class
Execute(op, args) ==
    CASE op = "AddCommand" -> AddExecute(args)
      [] op = "SubtractCommand" -> SubtractExecute(args)
      [] op = "MultiplyCommand" -> MultiplyExecute(args)
      [] op = "DivideCommand" -> DivideExecute(args)

----------------------------------------------------------------------------
(* Dictionaries, and the command names in the order sorted() gives them    *)

EmptyDict == [n \in {} |-> ""]

\* variant: a key of both keeps a's value
UpdateKeepsExisting(a, b) ==
    [n \in DOMAIN a \cup DOMAIN b |-> IF n \in DOMAIN a THEN a[n] ELSE b[n]]

\* a.update(b): the keys of b are added to a, a key of both takes b's value
Update(a, b) ==
    [n \in DOMAIN a \cup DOMAIN b |-> IF n \in DOMAIN b THEN b[n] ELSE a[n]]

\* the command names of the model, in ascending str order (code points)
NameOrder == <<"add", "divide", "exit", "menu", "multiply", "sqrt", "subtract">>

Rank(name) == CHOOSE i \in 1..Len(NameOrder) : NameOrder[i] = name

RECURSIVE SortedReversed(_)
\* variant: the names come out in descending order
SortedReversed(keys) ==
    IF keys = {} THEN <<>>
    ELSE LET last == CHOOSE k \in keys : \A j \in keys : Rank(j) <= Rank(k)
         IN  <<last>> \o SortedReversed(keys \ {last})

RECURSIVE Sorted(_)
\* sorted(keys)
Sorted(keys) ==
    IF keys = {} THEN <<>>
    ELSE LET least == CHOOSE k \in keys : \A j \in keys : Rank(k) <= Rank(j)
         IN  <<least>> \o Sorted(keys \ {least})

\* the dictionary literal `commands` before the plugins are merged in
BuiltinCommands ==
    ("add" :> "AddCommand") @@ ("subtract" :> "SubtractCommand")
        @@ ("multiply" :> "MultiplyCommand") @@ ("divide" :> "DivideCommand")

----------------------------------------------------------------------------
(* The plugin package: what import_module and iter_modules meet            *)

PluginOps == {"PluginA", "PluginB"}

\* COMMANDS of two plugin modules; the second one redefines sqrt and add and
\* uses the names exit and menu
ExportA == "sqrt" :> "PluginA"

ExportB ==
    ("sqrt" :> "PluginB") @@ ("add" :> "PluginB")
        @@ ("exit" :> "PluginB") @@ ("menu" :> "PluginB")

Module(imp, has, cmds) == [imp |-> imp, has |-> has, cmds |-> cmds]

\* a sub-module imports and has COMMANDS, imports and has none, or its import
\* raises ModuleNotFoundError (a dependency of it is missing) or something else
Modules ==
    { Module("ok", TRUE, ExportA), Module("ok", TRUE, ExportB),
      Module("ok", FALSE, EmptyDict),
      Module("ModuleNotFoundError", FALSE, EmptyDict),
      Module("Exception", FALSE, EmptyDict) }

SeqsUpTo(S, n) == UNION { [1..k -> S] : k \in 0..n }

Source(status, modules) == [status |-> status, modules |-> modules]

\* the package imports, or import_module(plugin_package) raises
Sources ==
    { Source("ok", ms) : ms \in SeqsUpTo(Modules, MaxModules) }
        \cup { Source("ModuleNotFoundError", <<>>), Source("Exception", <<>>) }

WarnNotFound == LogEntry("warning", "Plugin package not found")

ErrLoading == LogEntry("error", "Error loading plugins")

InfoLoaded == LogEntry("info", "Loaded plugin")

----------------------------------------------------------------------------
(* repl(): input lines and printed lines                                   *)

WS == " "

\* line.strip().split(): a line is a sequence of words and whitespace runs;
\* the whitespace is dropped and the words are kept in order
Split(raw) == SelectSeq(raw, LAMBDA piece : piece # WS)

Lines ==
    { <<>>, <<WS>>, <<"exit">>, <<"menu">>,
      <<"add">>, <<"subtract">>, <<"multiply">>, <<"divide">>,
      <<WS, "add", WS, WS, "2", WS, "0.5", WS>>,
      <<"divide", WS, "2", WS, "0">>,
      <<"sqrt", WS, "2">> }

Event(type, raw) == [type |-> type, raw |-> raw]

\* input() returns a line, or raises KeyboardInterrupt, or raises EOFError
\* when standard input is exhausted
Events ==
    { Event("line", raw) : raw \in Lines }
        \cup { Event("KeyboardInterrupt", <<>>), Event("EOFError", <<>>) }

NoVal == [t |-> "none", n |-> 0, d |-> 1, s |-> ""]

Printed(k, names, val) == [k |-> k, names |-> names, val |-> val]

Welcome == Printed("welcome", <<>>, NoVal)

Farewell == Printed("farewell", <<>>, NoVal)

\* the farewell of the KeyboardInterrupt handler starts with a newline
InterruptFarewell == Printed("farewell", <<>>, Str("\n"))

InvalidCommand == Printed("invalid", <<>>, NoVal)

\* a plugin operation is foreign code: its execute returns or raises
PluginOutcomes == {"returns", "raises"}

PluginResult == Str("plugin result")

Raised == [t |-> "raised", n |-> 0, d |-> 1, s |-> ""]

Call(name, op, args, ret) == [name |-> name, op |-> op, args |-> args, ret |-> ret]

NoCall == Call("", "", <<>>, NoVal)

\* variant: the registry is consulted before the reserved names
BranchRegistryFirst(tokens, cmds) ==
    IF tokens = <<>> THEN "continue"
    ELSE IF tokens[1] \in DOMAIN cmds THEN "execute"
    ELSE IF tokens[1] = "exit" THEN "exit"
    ELSE IF tokens[1] = "menu" THEN "menu"
    ELSE "invalid"

\* the if / elif chain of repl(), in the order the code tests
Branch(tokens, cmds) ==
    IF tokens = <<>> THEN "continue"
    ELSE IF tokens[1] = "exit" THEN "exit"
    ELSE IF tokens[1] = "menu" THEN "menu"
    ELSE IF tokens[1] \in DOMAIN cmds THEN "execute"
    ELSE "invalid"

----------------------------------------------------------------------------
(* The program: plugin loading at import time, then repl()                 *)

Init ==
    /\ pc = "import_package"
    /\ source \in Sources
    /\ idx = 0
    /\ loader = EmptyDict
    /\ commands = BuiltinCommands
    /\ inputs = <<>>
    /\ out = <<>>
    /\ log = <<>>
    /\ call = NoCall

\* package = importlib.import_module(self.plugin_package)
ImportPackage ==
    /\ pc = "import_package"
    /\ CASE source.status = "ok" ->
              pc' = "iter_modules" /\ log' = log
         [] source.status = "ModuleNotFoundError" ->
              pc' = "loaded" /\ log' = Append(log, WarnNotFound)
         [] OTHER ->
              pc' = "loaded" /\ log' = Append(log, ErrLoading)
    /\ UNCHANGED <<source, idx, loader, commands, inputs, out, call>>

\* one pass of the for loop over pkgutil.iter_modules
ImportModule ==
    /\ pc = "iter_modules"
    /\ idx < Len(source.modules)
    /\ LET module == source.modules[idx + 1]
       IN  CASE module.imp = "ok" ->
                  /\ idx' = idx + 1
                  /\ pc' = pc
                  /\ IF module.has
                     THEN /\ loader' = Update(loader, module.cmds)
                          /\ log' = Append(log, InfoLoaded)
                     ELSE UNCHANGED <<loader, log>>
             [] module.imp = "ModuleNotFoundError" ->
                  /\ pc' = "loaded"
                  /\ log' = Append(log, WarnNotFound)
                  /\ UNCHANGED <<idx, loader>>
             [] OTHER ->
                  /\ pc' = "loaded"
                  /\ log' = Append(log, ErrLoading)
                  /\ UNCHANGED <<idx, loader>>
    /\ UNCHANGED <<source, commands, inputs, out, call>>

\* the for loop is exhausted and load_plugins returns
LoadPluginsReturn ==
    /\ pc = "iter_modules"
    /\ idx = Len(source.modules)
    /\ pc' = "loaded"
    /\ UNCHANGED <<source, idx, loader, commands, inputs, out, log, call>>

\* commands.update(load_dynamic_commands())
IntegrateDynamicCommands ==
    /\ pc = "loaded"
    /\ commands' = Update(commands, loader)
    /\ pc' = "main"
    /\ UNCHANGED <<source, idx, loader, inputs, out, log, call>>

\* repl() is entered and prints the welcome line
ReplStart ==
    /\ pc = "main"
    /\ out' = Append(out, Welcome)
    /\ pc' = "repl"
    /\ UNCHANGED <<source, idx, loader, commands, inputs, log, call>>

\* an event that ends the session whatever the registry holds
Final(ev) ==
    \/ ev.type # "line"
    \/ (Split(ev.raw) # <<>> /\ Split(ev.raw)[1] = "exit")

\* one pass of the while loop: input(), then the whole dispatch of the line
ReplIteration ==
    /\ pc = "repl"
    /\ \E ev \in Events, po \in PluginOutcomes :
         LET tokens == Split(ev.raw)
             branch == IF ev.type = "line" THEN Branch(tokens, commands) ELSE ev.type
         IN  /\ Final(ev) \/ Len(inputs) < MaxLines
             /\ inputs' = Append(inputs, ev)
             /\ CASE branch = "EOFError" ->
                       /\ pc' = "raised"
                       /\ call' = NoCall
                       /\ UNCHANGED <<out, log>>
                  [] branch = "KeyboardInterrupt" ->
                       /\ pc' = "done"
                       /\ out' = Append(out, InterruptFarewell)
                       /\ log' = Append(log, LogEntry("info", "Calculator exited via KeyboardInterrupt."))
                       /\ call' = NoCall
                  [] branch = "continue" ->
                       /\ pc' = pc
                       /\ call' = NoCall
                       /\ UNCHANGED <<out, log>>
                  [] branch = "exit" ->
                       /\ pc' = "done"
                       /\ out' = Append(out, Farewell)
                       /\ log' = Append(log, LogEntry("info", "User exited the calculator."))
                       /\ call' = NoCall
                  [] branch = "menu" ->
                       /\ pc' = pc
                       /\ out' = Append(out, Printed("menu", Sorted(DOMAIN commands), NoVal))
                       /\ call' = NoCall
                       /\ log' = log
                  [] branch = "execute" ->
                       LET name == tokens[1]
                           op == commands[name]
                           args == Tail(tokens)
                       IN  IF op \in BuiltinOps
                           THEN LET res == Execute(op, args)
                                IN  /\ pc' = pc
                                    /\ out' = Append(out, Printed("result", <<>>, res.ret))
                                    /\ log' = log \o res.logs
                                    /\ call' = Call(name, op, args, res.ret)
                           ELSE IF po = "returns"
                                THEN /\ pc' = pc
                                     /\ out' = Append(out, Printed("result", <<>>, PluginResult))
                                     /\ log' = log
                                     /\ call' = Call(name, op, args, PluginResult)
                                ELSE /\ pc' = "raised"
                                     /\ call' = Call(name, op, args, Raised)
                                     /\ UNCHANGED <<out, log>>
                  [] OTHER ->
                       /\ pc' = pc
                       /\ out' = Append(out, InvalidCommand)
                       /\ call' = NoCall
                       /\ log' = log
    /\ UNCHANGED <<source, idx, loader, commands>>

Next ==
    \/ ImportPackage
    \/ ImportModule
    \/ LoadPluginsReturn
    \/ IntegrateDynamicCommands
    \/ ReplStart
    \/ ReplIteration

Spec == Init /\ [][Next]_vars

----------------------------------------------------------------------------
(* Direct calls of execute() on the built-in commands                      *)

ArgLists == SeqsUpTo(Tokens, MaxArgs)

InitExec ==
    /\ pc = "direct"
    /\ source = Source("ModuleNotFoundError", <<>>)
    /\ idx = 0
    /\ loader = EmptyDict
    /\ commands = BuiltinCommands
    /\ inputs = <<>>
    /\ out = <<>>
    /\ log = <<>>
    /\ \E op \in BuiltinOps, args \in ArgLists : call = Call("", op, args, NoVal)

\* execute(args) is called on the chosen command and returns
ExecuteDirect ==
    /\ pc = "direct"
    /\ LET res == Execute(call.op, call.args)
       IN  /\ call' = [call EXCEPT !.ret = res.ret]
           /\ log' = log \o res.logs
    /\ pc' = "returned"
    /\ UNCHANGED <<source, idx, loader, commands, inputs, out>>

NextExec == ExecuteDirect

SpecExec == InitExec /\ [][NextExec]_vars

----------------------------------------------------------------------------
(* Vocabulary of the properties                                            *)

InRepl == pc \in {"repl", "done", "raised"}

IsLine(ev) == ev.type = "line"

FirstToken(ev) == IF IsLine(ev) /\ Split(ev.raw) # <<>> THEN Split(ev.raw)[1] ELSE ""

LastEvent == inputs[Len(inputs)]

LastOut == out[Len(out)]

\* the input events that are lines holding at least one word
NonEmptyLines == SelectSeq(inputs, LAMBDA ev : IsLine(ev) /\ Split(ev.raw) # <<>>)

BuiltinNames == {"add", "subtract", "multiply", "divide"}

Returned == pc = "returned"

ZeroDivisorAt(args, i) == i >= 2 /\ CanParse(args[i]) /\ IsZero(ParseFloat(args[i]))

----------------------------------------------------------------------------
(* C1 *)

\* C1: whatever lines and interrupts repl() is fed and whatever the registry
\* holds, no exception reaches the caller; the loop has ended exactly when
\* the latest event is an `exit` line or an interrupt, and then the farewell
\* is the last thing printed; after any other event the loop still runs.
C1_LoopEndsOnlyOnExitOrInterrupt ==
    (InRepl /\ \A i \in 1..Len(inputs) : inputs[i].type # "EOFError") =>
        /\ pc # "raised"
        /\ pc = "done" <=>
              /\ inputs # <<>>
              /\ FirstToken(LastEvent) = "exit" \/ LastEvent.type = "KeyboardInterrupt"
        /\ pc = "done" => LastOut.k = "farewell"

----------------------------------------------------------------------------
(* C2 *)

\* C2: a line whose first token is `exit` ends the loop with the farewell and
\* a line whose first token is `menu` prints the command list, also when the
\* registry holds an entry under that name; no operation registered under
\* `exit` or `menu` is ever executed.
C2_ReservedNamesBeforeRegistry ==
    /\ call.name \notin {"exit", "menu"}
    /\ (InRepl /\ inputs # <<>>) =>
          /\ FirstToken(LastEvent) = "exit" =>
                pc = "done" /\ LastOut = Farewell /\ call = NoCall
          /\ FirstToken(LastEvent) = "menu" =>
                pc = "repl" /\ LastOut.k = "menu" /\ call = NoCall

\* a registry holding plugin entries named exit and menu has served a menu
\* line and then an exit line
C2_Witness ==
    /\ pc = "done"
    /\ {"exit", "menu"} \subseteq DOMAIN commands
    /\ Len(inputs) = 2
    /\ FirstToken(inputs[1]) = "menu"
    /\ FirstToken(inputs[2]) = "exit"
    /\ Len(out) = 3

----------------------------------------------------------------------------
(* C3 *)

\* C3 as stated, for the calls in which the tokens before the zero all parse:
\* a divide call of two or more arguments with a zero divisor returns the
\* division-by-zero error, whatever tokens follow the zero.
C3_ZeroDivisorWhateverFollows ==
    (Returned /\ call.op = "DivideCommand" /\ Len(call.args) >= 2) =>
        \A i \in 2..Len(call.args) :
            (ZeroDivisorAt(call.args, i) /\ \A j \in 1..(i - 1) : CanParse(call.args[j]))
                => call.ret = ErrDivisionByZero

\* C3 amended: a divide call of two or more arguments that all parse as
\* numbers and of which some divisor is zero returns the division-by-zero
\* error, wherever the zero stands and whatever numbers follow it.
C3_ZeroDivisorAmongNumbers ==
    (Returned /\ call.op = "DivideCommand" /\ Len(call.args) >= 2
        /\ ~RaisesValueError(call.args)) =>
        ((\E i \in 2..Len(call.args) : ZeroDivisorAt(call.args, i))
            => call.ret = ErrDivisionByZero)

\* a zero divisor in second place followed by a non-zero number
C3_Witness ==
    /\ Returned
    /\ call.op = "DivideCommand"
    /\ call.args = <<"2", "0", "0.5">>
    /\ call.ret = ErrDivisionByZero

----------------------------------------------------------------------------
(* C4 *)

\* C4: a built-in command called with a non-empty argument list of which at
\* least one token does not parse returns the invalid-input error.
C4_BadTokenIsInvalidInput ==
    (Returned /\ call.args # <<>> /\ RaisesValueError(call.args)) =>
        call.ret = ErrInvalidInput

\* divide called with a zero divisor and a token that does not parse
C4_Witness ==
    /\ Returned
    /\ call.op = "DivideCommand"
    /\ Len(call.args) = 3
    /\ ZeroDivisorAt(call.args, 2)
    /\ ~CanParse(call.args[3])
    /\ call.ret = ErrInvalidInput

----------------------------------------------------------------------------
(* C5 *)

\* C5 as stated: divide called with exactly one argument returns the
\* insufficient-operands error.
C5_SingleArgumentDivide ==
    (Returned /\ call.op = "DivideCommand" /\ Len(call.args) = 1) =>
        call.ret = ErrTwoNumbers

\* C5 amended: divide called with exactly one argument that parses as a
\* number returns the insufficient-operands error, which differs from the
\* invalid-input error; no other command and no other argument count
\* returns it.
C5_SingleNumberDivide ==
    /\ ErrTwoNumbers # ErrInvalidInput
    /\ (Returned /\ call.op = "DivideCommand" /\ Len(call.args) = 1
            /\ CanParse(call.args[1])) => call.ret = ErrTwoNumbers
    /\ (Returned /\ call.ret = ErrTwoNumbers) =>
            call.op = "DivideCommand" /\ Len(call.args) = 1

\* divide called with the single number 2
C5_Witness ==
    /\ Returned
    /\ call.op = "DivideCommand"
    /\ call.args = <<"2">>
    /\ call.ret = ErrTwoNumbers

----------------------------------------------------------------------------
(* C6 *)

\* what the claim expects of a call without arguments
EmptyCallResult(op) ==
    CASE op = "AddCommand" -> IntVal(0)
      [] op = "MultiplyCommand" -> IntVal(1)
      [] op = "SubtractCommand" -> ErrInvalidInput
      [] op = "DivideCommand" -> ErrInvalidInput

\* C6: without arguments add returns 0, multiply returns 1, subtract and
\* divide return the invalid-input error, and a line holding only the name of
\* a built-in command prints that same result.
C6_EmptyCalls ==
    /\ \A op \in BuiltinOps : Execute(op, <<>>).ret = EmptyCallResult(op)
    /\ (pc = "repl" /\ inputs # <<>> /\ IsLine(LastEvent)
            /\ Len(Split(LastEvent.raw)) = 1
            /\ FirstToken(LastEvent) \in DOMAIN commands \ {"exit", "menu"}
            /\ commands[FirstToken(LastEvent)] \in BuiltinOps) =>
          /\ call.args = <<>>
          /\ call.ret = EmptyCallResult(commands[FirstToken(LastEvent)])
          /\ LastOut = Printed("result", <<>>, call.ret)

\* the line `multiply` has been dispatched to the built-in command
C6_Witness ==
    /\ pc = "repl"
    /\ inputs # <<>>
    /\ LastEvent = Event("line", <<"multiply">>)
    /\ call.op = "MultiplyCommand"
    /\ LastOut = Printed("result", <<>>, IntVal(1))

----------------------------------------------------------------------------
(* C7 *)

\* the sub-modules merged so far that export the name
Exporters(name) ==
    { i \in 1..idx : source.modules[i].has /\ name \in DOMAIN source.modules[i].cmds }

Greatest(S) == CHOOSE i \in S : \A j \in S : j <= i

\* C7: after startup the registry's keys are the four built-in names and the
\* keys of the loader's mapping; a name of the loader's mapping maps to the
\* plugin's operation, the one of the sub-module merged last among those
\* exporting it; every other built-in name maps to its built-in command.
C7_RegistryAfterStartup ==
    pc \in {"main", "repl", "done", "raised"} =>
        /\ DOMAIN commands = BuiltinNames \cup DOMAIN loader
        /\ \A name \in DOMAIN loader : commands[name] = loader[name]
        /\ \A name \in BuiltinNames \ DOMAIN loader :
              commands[name] = BuiltinCommands[name]
        /\ \A name \in DOMAIN loader :
              /\ Exporters(name) # {}
              /\ loader[name] = source.modules[Greatest(Exporters(name))].cmds[name]
        /\ \A i \in 1..idx :
              source.modules[i].has => DOMAIN source.modules[i].cmds \subseteq DOMAIN loader

\* two sub-modules export sqrt, the later one also add: the registry holds
\* the later one's operations
C7_Witness ==
    /\ pc = "main"
    /\ idx = 2
    /\ source.modules[1].cmds = ExportA
    /\ source.modules[2].cmds = ExportB
    /\ commands["sqrt"] = "PluginB"
    /\ commands["add"] = "PluginB"
    /\ commands["divide"] = "DivideCommand"

----------------------------------------------------------------------------
(* C8 *)

LogHas(entry) == \E i \in 1..Len(log) : log[i] = entry

\* load_plugins has ended in one of its except clauses
LoadFailed ==
    \/ source.status # "ok"
    \/ idx < Len(source.modules)

\* C8: once the loader is constructed, a plugin source that was not found has
\* logged the warning, any other failure (the import of a sub-module of an
\* existing source included) has logged an error, and the loader's mapping
\* holds exactly what the sub-modules before the failure exported.
C8_LoaderFailureHandling ==
    pc \in {"loaded", "main", "repl", "done", "raised"} =>
        /\ source.status = "ModuleNotFoundError" => LogHas(WarnNotFound)
        /\ (LoadFailed /\ source.status # "ModuleNotFoundError") => LogHas(ErrLoading)
        /\ \A name \in DOMAIN loader :
              /\ Exporters(name) # {}
              /\ loader[name] = source.modules[Greatest(Exporters(name))].cmds[name]
        /\ \A i \in 1..idx :
              source.modules[i].has => DOMAIN source.modules[i].cmds \subseteq DOMAIN loader

----------------------------------------------------------------------------
(* C9 *)

Ascending(names) ==
    \A i \in 1..(Len(names) - 1) : Rank(names[i]) < Rank(names[i + 1])

\* C9: a menu line prints the registered names in ascending order, each
\* exactly once, the same list as every earlier menu line of the session;
\* no step of the loop changes the registry.
C9_MenuSortedAndRegistryFixed ==
    [][ pc = "repl" =>
          /\ commands' = commands
          /\ FirstToken(inputs'[Len(inputs')]) = "menu" =>
                LET names == out'[Len(out')].names
                IN  /\ Len(out') = Len(out) + 1
                    /\ out'[Len(out')].k = "menu"
                    /\ Ascending(names)
                    /\ { names[i] : i \in 1..Len(names) } = DOMAIN commands
                    /\ Len(names) = Cardinality(DOMAIN commands)
                    /\ \A i \in 1..Len(out) : out[i].k = "menu" => out[i].names = names
      ]_vars

\* two menu lines of one session, on a registry holding plugin entries
C9_Witness ==
    /\ pc = "repl"
    /\ Len(inputs) = 2
    /\ FirstToken(inputs[1]) = "menu"
    /\ FirstToken(inputs[2]) = "menu"
    /\ out[2].k = "menu"
    /\ out[3] = out[2]
    /\ Len(out[3].names) = 7

----------------------------------------------------------------------------
(* C10 *)

\* the kind of output line the dispatch of a non-empty line prints
Reply(ev) ==
    CASE FirstToken(ev) = "exit" -> "farewell"
      [] FirstToken(ev) = "menu" -> "menu"
      [] FirstToken(ev) \in DOMAIN commands -> "result"
      [] OTHER -> "invalid"

\* C10: in a session fed lines only, the output after the welcome holds one
\* line per non-empty input line, in the order of the input lines and of the
\* kind the line asks for; empty lines print nothing; an exit line is the
\* last line read and its farewell the last output.
C10_OneReplyPerLineInOrder ==
    (InRepl /\ \A i \in 1..Len(inputs) : IsLine(inputs[i])) =>
        /\ Len(out) = 1 + Len(NonEmptyLines)
        /\ \A k \in 1..Len(NonEmptyLines) :
              /\ k + 1 <= Len(out) => out[k + 1].k = Reply(NonEmptyLines[k])
              /\ FirstToken(NonEmptyLines[k]) = "exit" =>
                    k = Len(NonEmptyLines) /\ LastEvent = NonEmptyLines[k] /\ pc = "done"
        /\ pc # "repl" => (inputs # <<>> /\ FirstToken(LastEvent) = "exit")

====
